---- MODULE Spec2Model ----
(***************************************************************************)
(* Model of mlens.preprocessing.feature_engineering.PredictionFeature:     *)
(* the fit / predict / transform / get_params life cycle of the            *)
(* out-of-fold prediction feature transformer.                             *)
(*                                                                         *)
(* Rows of a sample matrix are numbered 1..n.  Fold ids are 0..k-1 as in   *)
(* the source; the full-data slice '' has the id FullId.                   *)
(* The modelled inputs are the valid ones: 2 <= folds <= n rows and        *)
(* sample_size <= n rows.                                                  *)
(***************************************************************************)
EXTENDS Integers, Sequences, FiniteSets, TLC

\* ------------------------------------------------------------- bounds
MaxRows == 3

MaxFolds == 2

\* the number of fit calls made on the transformer
MaxFits == 2

\* slice id of the full-data slice (the key '' of the source)
FullId == -1

\* ------------------------------------------------------------- inputs
\* the estimator templates passed to the constructor, in list order
Estimators == <<"ols", "ridge">>

\* hyperparameters step.get_params(deep=True) reports for each template
EstimatorParams == [ols |-> [offset |-> 1], ridge |-> [alpha |-> 2]]

Range(s) == {s[j] : j \in DOMAIN s}

EstNames == Range(Estimators)

RowCounts == 2..MaxRows

\* a sample matrix: n rows of one feature; variant 0 is all zeros, variant 1
\* has a one in its last row; df says whether it is a labelled table
Inputs == [n : RowCounts, variant : {0, 1}, df : BOOLEAN]

Values(X) == [j \in 1..X.n |-> IF X.variant = 1 /\ j = X.n THEN 1 ELSE 0]

\* row labels of a labelled table (not the default range index)
Labels(X) == IF X.df THEN [j \in 1..X.n |-> 10 + j] ELSE << >>

\* fit reads the values of X only, never its labels
FitInputs == {X \in Inputs : ~X.df}

\* random_state=None, and an integer seed
NoSeed == [none |-> TRUE, seed |-> 0]

Seed(k) == [none |-> FALSE, seed |-> k]

\* the fold settings: unshuffled, shuffled with the default random_state=None,
\* shuffled with a seed
FoldSettings ==
    {[shuffle |-> FALSE, random_state |-> Seed(1)],
     [shuffle |-> TRUE, random_state |-> NoSeed],
     [shuffle |-> TRUE, random_state |-> Seed(1)]}

SampleSizes == {2}

\* the worker counts n_jobs: sequential, and a pool of two
WorkerCounts == {1, 2}

Configs ==
    {[folds |-> k, shuffle |-> fs.shuffle, random_state |-> fs.random_state,
      concat |-> c, n_jobs |-> w, sample_size |-> z, scorer |-> "None",
      verbose |-> 0] :
        k \in 2..MaxFolds, fs \in FoldSettings, c \in BOOLEAN,
        w \in WorkerCounts, z \in SampleSizes}

\* ------------------------------------------------------------- cells
FeatCell(v) == [kind |-> "x", est |-> "", fold |-> 0, seen |-> {}, val |-> v]

NaNCell == [kind |-> "nan", est |-> "", fold |-> 0, seen |-> {}, val |-> 0]

\* the value a fitted handle h predicts for a row whose feature value is v
PredCell(h, v) ==
    [kind |-> "pred", est |-> h.est, fold |-> h.fold, seen |-> h.seen, val |-> v]

\* the sample matrix X as a table
XMat(X) ==
    [df |-> X.df, index |-> Labels(X),
     rows |-> [j \in 1..X.n |-> << FeatCell(Values(X)[j]) >>]]

NoMat == [df |-> FALSE, index |-> << >>, rows |-> << >>]

\* ------------------------------------------------------------- IdTrain
UnfitCheck == [fitted |-> FALSE, size |-> 0, shape |-> 0, sample |-> << >>]

Min2(a, b) == IF a < b THEN a ELSE b

\* IdTrain(size)
IdTrainInit(size) == [UnfitCheck EXCEPT !.size = size]

\* IdTrain.fit(X): the signature of the first `size` rows
IdTrainFit(chk, X) ==
    [chk EXCEPT !.fitted = TRUE, !.shape = X.n,
                !.sample = SubSeq(Values(X), 1, Min2(chk.size, X.n))]

\* IdTrain.is_train(X) raises NotFittedError on a checker that was never fitted
IsTrainRaises(chk) == ~chk.fitted

\* IdTrain.is_train(X) on a fitted checker
IsTrain(chk, X) ==
    /\ X.n = chk.shape
    /\ SubSeq(Values(X), 1, Min2(chk.size, X.n)) = chk.sample

\* ------------------------------------------------------------- folds
Perms(n) == {p \in [1..n -> 1..n] : \A a, b \in 1..n : p[a] = p[b] => a = b}

IdPerm(n) == [j \in 1..n |-> j]

SeededPerm(seed, n) == [j \in 1..n |-> ((j - 1 + seed) % n) + 1]

\* the row orders KFold(folds, shuffle, random_state) can produce
FoldPerms(n, shuffle, random_state) ==
    IF ~shuffle THEN {IdPerm(n)}
    ELSE IF random_state.none THEN Perms(n)
    ELSE {SeededPerm(random_state.seed, n)}

Lo(i, n, k) == (i * n) \div k

\* preprocess_folds(None, X, y, folds=k, fit=False, ...): one tuple per fold
PreprocessFolds(n, k, perm) ==
    [i \in 0..(k - 1) |->
        LET test == {perm[j] : j \in (Lo(i, n, k) + 1)..Lo(i + 1, n, k)}
        IN  [train |-> (1..n) \ test, test |-> test, id |-> FullId]]

Max(S) == CHOOSE m \in S : \A t \in S : t <= m

IndexFoldsDropLast(folds) ==
    [i \in DOMAIN folds \ {Max(DOMAIN folds)} |-> [folds[i] EXCEPT !.id = i]]

\* Min = [tup[:-1] + [i] for i, tup in enumerate(Min)]
IndexFolds(folds) == [i \in DOMAIN folds |-> [folds[i] EXCEPT !.id = i]]

\* Min = [[X, '']]
FullSlices(n) == (FullId :> [train |-> 1..n, test |-> 1..n, id |-> FullId])

NoSlices == [i \in {} |-> 0]

\* ------------------------------------------------------------- state
VARIABLES
    cfg,          \* the constructor's configuration options
    check,        \* self.check, the IdTrain fingerprint checker
    train_ests_,  \* self.train_ests_, the fold-wise handle set
    test_ests_,   \* self.test_ests_, the full-data handle set
    fitted_ests,  \* self._fitted_ests, the names recorded at fit time
    pc,           \* "idle"; the pass a running fit is in, "folds" or "full";
                  \* "returned" when a call has handed its result to the caller
    Min,          \* fit's local list of fold tuples
    clones,       \* the estimator clones of the running pass, by clone id
    jobs,         \* the fitting job of each slice: "pending", "running", "done"
    ret,          \* the last call: its arguments and what it returned or raised
    trainX,       \* the matrix given to the last fit call
    fitOK,        \* whether the last fit call returned normally
    nfit          \* the number of fit calls made so far

vars == <<cfg, check, train_ests_, test_ests_, fitted_ests, pc, Min, clones,
          jobs, ret, trainX, fitOK, nfit>>

\* an attribute that __init__ does not set
Unset == [set |-> FALSE, v |-> << >>]

Attr(v) == [set |-> TRUE, v |-> v]

\* the attributes fit assigns
Committed ==
    [check |-> check, train_ests_ |-> train_ests_, test_ests_ |-> test_ests_,
     fitted_ests |-> fitted_ests]

NoParams == [key \in {} |-> 0]

NoCommitted ==
    [check |-> UnfitCheck, train_ests_ |-> Unset, test_ests_ |-> Unset,
     fitted_ests |-> Unset]

NoCall ==
    [op |-> "none", X |-> [n |-> 0, variant |-> 0, df |-> FALSE], err |-> "none",
     recognised |-> FALSE, folded |-> FALSE, used |-> "none", slices |-> NoSlices,
     produced |-> {}, M |-> NoMat, out |-> NoMat, deep |-> FALSE,
     params |-> NoParams, pre |-> NoCommitted]

\* ------------------------------------------------------------- fitting
\* the clone of template e made for slice i
CloneIdShared(i, e) == <<FullId, e>>

CloneId(i, e) == <<i, e>>

\* the fold tuples preprocess_folds can return for n rows under the configuration
FoldChoices(n) ==
    {PreprocessFolds(n, cfg.folds, perm) :
        perm \in FoldPerms(n, cfg.shuffle, cfg.random_state)}

\* ests_ = {i: clone_base_estimators(...)[''] for i in range(len(Min))}
EstsFor(slices) ==
    [i \in DOMAIN slices |-> [j \in DOMAIN Estimators |-> CloneId(i, Estimators[j])]]

FreshClones(slices) ==
    [c \in {CloneId(i, e) : i \in DOMAIN slices, e \in EstNames} |->
        [est |-> c[2], fitted |-> FALSE, seen |-> {}, by |-> {}]]

ClonesOf(slices, s) == {EstsFor(slices)[s][j] : j \in DOMAIN Estimators}

\* what fit_estimators returns once every job is done:
\* slice id -> list of fitted handles, in template order
FittedHandles(slices, heap) ==
    [i \in DOMAIN slices |->
        [j \in DOMAIN Estimators |->
            LET c == heap[EstsFor(slices)[i][j]]
            IN  [est |-> c.est, fold |-> i, fitted |-> c.fitted,
                 seen |-> c.seen, by |-> c.by]]]

\* the slices of the running pass
Slices == IF pc = "full" THEN FullSlices(trainX.n) ELSE Min

Running == {s \in DOMAIN jobs : jobs[s] = "running"}

Pending == {s \in DOMAIN jobs : jobs[s] = "pending"}

AllDone == \A s \in DOMAIN jobs : jobs[s] = "done"

Init ==
    /\ cfg \in Configs
    /\ check = IdTrainInit(cfg.sample_size)
    /\ train_ests_ = Unset
    /\ test_ests_ = Unset
    /\ fitted_ests = Unset
    /\ pc = "idle"
    /\ Min = NoSlices
    /\ clones = NoParams
    /\ jobs = NoSlices
    /\ ret = NoCall
    /\ trainX = NoCall.X
    /\ fitOK = FALSE
    /\ nfit = 0

\* fit, lines 107-127: store the training set id, make the folds and the
\* per-fold clones, hand the fold jobs to the pool
FitBegin(X) ==
    /\ pc = "idle"
    /\ nfit < MaxFits
    /\ nfit' = nfit + 1
    /\ cfg.folds <= X.n
    /\ cfg.sample_size <= X.n
    /\ \E tuples \in FoldChoices(X.n) :
          LET folds == IndexFolds(tuples)
          IN  /\ Min' = folds
              /\ clones' = FreshClones(folds)
              /\ jobs' = [i \in DOMAIN folds |-> "pending"]
    /\ check' = IdTrainFit(check, X)
    /\ pc' = "folds"
    /\ ret' = [NoCall EXCEPT !.op = "fit", !.X = X, !.err = "running",
                             !.pre = Committed]
    /\ trainX' = X
    /\ fitOK' = FALSE
    /\ UNCHANGED <<cfg, train_ests_, test_ests_, fitted_ests>>

\* a worker takes the job of slice s and starts fitting the slice's clones
JobStart(s) ==
    /\ pc \in {"folds", "full"}
    /\ s \in Pending
    /\ Cardinality(Running) < cfg.n_jobs
    /\ cfg.n_jobs = 1 => \A t \in Pending : s <= t
    /\ jobs' = [jobs EXCEPT ![s] = "running"]
    /\ clones' = [c \in DOMAIN clones |->
                    IF c \in ClonesOf(Slices, s)
                    THEN [clones[c] EXCEPT !.by = @ \cup {s}, !.fitted = FALSE]
                    ELSE clones[c]]
    /\ UNCHANGED <<cfg, check, train_ests_, test_ests_, fitted_ests, pc, Min,
                   ret, trainX, fitOK, nfit>>

\* the job of slice s ends: its clones are fitted on the slice's training rows
JobFinish(s) ==
    /\ pc \in {"folds", "full"}
    /\ s \in Running
    /\ jobs' = [jobs EXCEPT ![s] = "done"]
    /\ clones' = [c \in DOMAIN clones |->
                    IF c \in ClonesOf(Slices, s)
                    THEN [clones[c] EXCEPT !.fitted = TRUE,
                                           !.seen = Slices[s].train]
                    ELSE clones[c]]
    /\ UNCHANGED <<cfg, check, train_ests_, test_ests_, fitted_ests, pc, Min,
                   ret, trainX, fitOK, nfit>>

\* an estimator of slice s fails to fit: the batch is aborted and fit raises
JobFail(s) ==
    /\ pc \in {"folds", "full"}
    /\ s \in Running
    /\ pc' = "returned"
    /\ Min' = NoSlices
    /\ clones' = NoParams
    /\ jobs' = NoSlices
    /\ ret' = [ret EXCEPT !.err = "EstimatorFitError"]
    /\ UNCHANGED <<cfg, check, train_ests_, test_ests_, fitted_ests, trainX, fitOK, nfit>>

\* fit, lines 128-136: the fold jobs are joined, the fold-wise handles are
\* stored, and the full-data job is handed to the pool
FitJoinFolds ==
    /\ pc = "folds"
    /\ AllDone
    /\ train_ests_' = Attr(FittedHandles(Min, clones))
    /\ pc' = "full"
    /\ clones' = FreshClones(FullSlices(trainX.n))
    /\ jobs' = [i \in DOMAIN FullSlices(trainX.n) |-> "pending"]
    /\ UNCHANGED <<cfg, check, test_ests_, fitted_ests, Min, ret, trainX, fitOK, nfit>>

\* fitted_test_ests = [est_name for est_name, _ in self.test_ests_['']]
FittedNames(handles) == [j \in DOMAIN handles[FullId] |-> handles[FullId][j].est]

\* fit, lines 132-144: the full-data job is joined, the full-data handles and
\* the fitted names are stored, fit returns self
FitJoinFull ==
    /\ pc = "full"
    /\ AllDone
    /\ LET handles == FittedHandles(FullSlices(trainX.n), clones)
       IN  /\ test_ests_' = Attr(handles)
           /\ fitted_ests' = Attr(FittedNames(handles))
    /\ pc' = "returned"
    /\ Min' = NoSlices
    /\ clones' = NoParams
    /\ jobs' = NoSlices
    /\ ret' = [ret EXCEPT !.err = "none"]
    /\ fitOK' = TRUE
    /\ UNCHANGED <<cfg, check, train_ests_, trainX, nfit>>

\* ------------------------------------------------------------- predict
\* predict, lines 161-177: fold mode iff X is recognised as the training set
PredictModeAlwaysFull(recognised) == FALSE

PredictMode(recognised) == recognised

\* estimators = self.train_ests_ / self.test_ests_
Ensemble(folded) == IF folded THEN train_ests_ ELSE test_ests_

EnsembleName(folded) == IF folded THEN "train" ELSE "test"

\* Min of predict: the regenerated, indexed folds, or [[X, '']]
PredictSlices(folded, n, tuples) ==
    IF folded THEN IndexFolds(tuples) ELSE FullSlices(n)

\* base_predict: every slice's handles predict the slice's held-out rows
\* into the column of their estimator; `produced` are the estimators that
\* gave predictions
BasePredict(slices, handles, X, columns, as_df, produced) ==
    [df |-> as_df,
     index |-> IF as_df THEN [r \in 1..X.n |-> r - 1] ELSE << >>,
     rows |-> [r \in 1..X.n |->
        [j \in DOMAIN columns |->
            LET writers == {i \in DOMAIN slices : r \in slices[i].test}
                hs == IF writers = {} THEN {}
                      ELSE {handles[Max(writers)][q] :
                                q \in DOMAIN handles[Max(writers)]}
                mine == {h \in hs : h.est = columns[j] /\ h.est \in produced}
            IN  IF mine = {} THEN NaNCell
                ELSE PredCell(CHOOSE h \in mine : TRUE, Values(X)[r])]]]

\* check_fit_overlap: is an expected estimator missing from the produced ones
CheckFitOverlap(expected, produced) ==
    \E j \in DOMAIN expected : expected[j] \notin produced

NoOverlapCheck(expected, produced) == "none"

\* predict, lines 187-189
OverlapError(expected, produced) ==
    IF CheckFitOverlap(expected, produced) THEN "EstimatorMismatchError"
    ELSE "none"

\* predict(X), lines 159-189, as the record of the call
PredictCall(op, X, tuples, produced) ==
    LET base == [NoCall EXCEPT !.op = op, !.X = X]
    IN  IF IsTrainRaises(check)
        THEN [base EXCEPT !.err = "NotFittedError"]
        ELSE
          LET rec == IsTrain(check, X)
              folded == PredictMode(rec)
              ens == Ensemble(folded)
          IN  IF ~ens.set \/ ~fitted_ests.set
              THEN [base EXCEPT !.err = "AttributeError", !.recognised = rec]
              ELSE
                LET slices == PredictSlices(folded, X.n, tuples)
                    M == BasePredict(slices, ens.v, X, fitted_ests.v, X.df,
                                     produced)
                    err == OverlapError(fitted_ests.v, produced)
                IN  [base EXCEPT !.recognised = rec, !.folded = folded,
                                 !.used = EnsembleName(folded),
                                 !.slices = slices, !.produced = produced,
                                 !.err = err,
                                 !.M = IF err = "none" THEN M ELSE NoMat,
                                 !.out = IF err = "none" THEN M ELSE NoMat]

\* whether predict(X) gets as far as base_predict
ReachesBasePredict(X) ==
    /\ ~IsTrainRaises(check)
    /\ Ensemble(PredictMode(IsTrain(check, X))).set
    /\ fitted_ests.set

\* what preprocess_folds can return to predict(X), when predict calls it
PredictFoldChoices(X) ==
    IF ReachesBasePredict(X) /\ PredictMode(IsTrain(check, X))
    THEN FoldChoices(X.n) ELSE {NoSlices}

\* the estimators that can be the ones giving predictions in base_predict
ProducedChoices(X) == IF ReachesBasePredict(X) THEN SUBSET EstNames ELSE {{}}

Predict(X) ==
    /\ pc = "idle"
    /\ pc' = "returned"
    /\ \E tuples \in PredictFoldChoices(X) :
       \E produced \in ProducedChoices(X) :
          ret' = PredictCall("predict", X, tuples, produced)
    /\ UNCHANGED <<cfg, check, train_ests_, test_ests_, fitted_ests, Min,
                   clones, jobs, trainX, fitOK, nfit>>

\* ------------------------------------------------------------- transform
\* DataFrame.set_index(index, inplace=True)
SetIndex(T, index) == [T EXCEPT !.index = index]

Width(T) == IF Len(T.rows) = 0 THEN 0 ELSE Len(T.rows[1])

RowOf(T, label) ==
    IF \E q \in DOMAIN T.index : T.index[q] = label
    THEN T.rows[CHOOSE q \in DOMAIN T.index : T.index[q] = label]
    ELSE [j \in 1..Width(T) |-> NaNCell]

\* pandas.concat((A, B), 1): the rows are aligned on their labels
ConcatAxis1(A, B) ==
    LET New(label) == label \notin Range(A.index)
        index == IF A.index = B.index THEN A.index
                 ELSE A.index \o SelectSeq(B.index, New)
    IN  [df |-> TRUE, index |-> index,
         rows |-> [p \in DOMAIN index |->
                     RowOf(A, index[p]) \o RowOf(B, index[p])]]

\* numpy.hstack((A, B)): the rows are joined by position
HStack(A, B) ==
    [df |-> FALSE, index |-> << >>,
     rows |-> [r \in DOMAIN A.rows |-> A.rows[r] \o B.rows[r]]]

TransformOutNoIndex(X, M) ==
    IF ~cfg.concat THEN M
    ELSE IF X.df THEN ConcatAxis1(XMat(X), M)
    ELSE HStack(XMat(X), M)

\* transform, lines 206-214
TransformOut(X, M) ==
    IF ~cfg.concat THEN M
    ELSE IF X.df THEN ConcatAxis1(XMat(X), SetIndex(M, Labels(X)))
    ELSE HStack(XMat(X), M)

Transform(X) ==
    /\ pc = "idle"
    /\ pc' = "returned"
    /\ \E tuples \in PredictFoldChoices(X) :
       \E produced \in ProducedChoices(X) :
          LET r == PredictCall("transform", X, tuples, produced)
          IN  ret' = IF r.err # "none" THEN r
                     ELSE [r EXCEPT !.out = TransformOut(X, r.M)]
    /\ UNCHANGED <<cfg, check, train_ests_, test_ests_, fitted_ests, Min,
                   clones, jobs, trainX, fitOK, nfit>>

\* ------------------------------------------------------------- get_params
\* self.named_estimators = name_estimators(estimators)
NamedEstimators == [e \in EstNames |-> [name |-> e, params |-> EstimatorParams[e]]]

\* the constructor's options, as sklearn's BaseEstimator reads its signature
InitOptions ==
    {"estimators", "folds", "shuffle", "scorer", "concat", "random_state",
     "sample_size", "verbose", "n_jobs"}

\* getattr(self, option)
Attribute(option) ==
    CASE option = "estimators" -> Estimators
      [] option = "folds" -> cfg.folds
      [] option = "shuffle" -> cfg.shuffle
      [] option = "scorer" -> cfg.scorer
      [] option = "concat" -> cfg.concat
      [] option = "random_state" -> cfg.random_state
      [] option = "sample_size" -> cfg.sample_size
      [] option = "verbose" -> cfg.verbose
      [] option = "n_jobs" -> cfg.n_jobs

\* super().get_params(deep=False)
ShallowParams == [key \in {<<o>> : o \in InitOptions} |-> Attribute(key[1])]

\* the dict `out` of lines 221-228
OwnParams ==
    [key \in {<<"folds">>, <<"shuffle">>, <<"random_state">>, <<"sample_size">>,
              <<"verbose">>, <<"n_jobs">>, <<"scorer">>, <<"concat">>} |->
        IF key = <<"sample_size">> THEN check.size ELSE Attribute(key[1])]

\* get_params(deep=True), lines 221-234
DeepParams ==
    LET nested == {<<e, k>> : e \in EstNames, k \in {"offset", "alpha"}}
        keys == DOMAIN OwnParams
                  \cup {<<e>> : e \in EstNames}
                  \cup {key \in nested :
                          key[2] \in DOMAIN NamedEstimators[key[1]].params}
    IN  [key \in keys |->
            IF key \in DOMAIN OwnParams THEN OwnParams[key]
            ELSE IF Len(key) = 1 THEN NamedEstimators[key[1]]
            ELSE NamedEstimators[key[1]].params[key[2]]]

GetParams(deep) ==
    /\ pc = "idle"
    /\ pc' = "returned"
    /\ ret' = [NoCall EXCEPT !.op = "get_params", !.deep = deep,
                             !.params = IF deep THEN DeepParams ELSE ShallowParams]
    /\ UNCHANGED <<cfg, check, train_ests_, test_ests_, fitted_ests, Min,
                   clones, jobs, trainX, fitOK, nfit>>

\* the caller takes the result of the call; the call's record is dropped
Return ==
    /\ pc = "returned"
    /\ pc' = "idle"
    /\ ret' = NoCall
    /\ UNCHANGED <<cfg, check, train_ests_, test_ests_, fitted_ests, Min,
                   clones, jobs, trainX, fitOK, nfit>>

\* ------------------------------------------------------------- behaviours
Next ==
    \/ \E X \in FitInputs : FitBegin(X)
    \/ \E s \in DOMAIN jobs : JobStart(s)
    \/ \E s \in DOMAIN jobs : JobFinish(s)
    \/ \E s \in DOMAIN jobs : JobFail(s)
    \/ FitJoinFolds
    \/ FitJoinFull
    \/ \E X \in Inputs : Predict(X)
    \/ \E X \in Inputs : Transform(X)
    \/ \E deep \in BOOLEAN : GetParams(deep)
    \/ Return

Spec == Init /\ [][Next]_vars

\* ------------------------------------------------------------- properties
Returned(ops) == pc = "returned" /\ ret.op \in ops

\* predict ran base_predict and the overlap check
Assembled == ret.err \in {"none", "EstimatorMismatchError"}

Cells(M) == {M.rows[r][j] : r \in DOMAIN M.rows, j \in 1..Width(M)}

\* C1: after a fit that returned, predict on the training set gives at every
\* row r, in every column, a prediction of a fold-wise clone whose training
\* slice at fit time did not hold row r, whatever folds, shuffle and
\* random_state are
C1_LeakageFree ==
    (/\ Returned({"predict"})
     /\ ret.err = "none"
     /\ fitOK
     /\ ret.recognised
     /\ Values(ret.X) = Values(trainX))
    => \A r \in 1..ret.X.n : \A j \in DOMAIN ret.M.rows[r] :
          /\ ret.M.rows[r][j].kind = "pred"
          /\ r \notin ret.M.rows[r][j].seen

\* C2: predict picks the ensemble by the fingerprint check alone: the
\* fold-wise handles over the regenerated folds when X is recognised, the
\* full-data handles over one slice of all rows otherwise, never a mix
C2_EnsembleByFingerprint ==
    (Returned({"predict", "transform"}) /\ Assembled)
    => LET rec == IsTrain(check, ret.X)
       IN  /\ rec => /\ ret.used = "train"
                      /\ ret.folded
                      /\ DOMAIN ret.slices = 0..(cfg.folds - 1)
                      /\ \A c \in Cells(ret.M) :
                            /\ c.fold \in DOMAIN train_ests_.v
                            /\ \E h \in Range(train_ests_.v[c.fold]) :
                                  c = PredCell(h, c.val)
           /\ ~rec => /\ ret.used = "test"
                       /\ ~ret.folded
                       /\ ret.slices = FullSlices(ret.X.n)
                       /\ \A c \in Cells(ret.M) :
                             \E h \in Range(test_ests_.v[FullId]) :
                                c = PredCell(h, c.val)

C2_Witness ==
    /\ Returned({"predict"})
    /\ ret.err = "none"
    /\ ret.recognised
    /\ ret.used = "train"
    /\ Values(ret.X) # Values(trainX)

\* C3: predict and transform on a transformer on which no fit has completed
\* raise NotFittedError and return no matrix
C3_NotFitted ==
    (Returned({"predict", "transform"}) /\ ~fitted_ests.set)
    => /\ ret.err = "NotFittedError"
       /\ ret.out = NoMat

\* C4: when fit raises EstimatorFitError, the fingerprint, both handle sets
\* and the fitted names are what they were before the call
C4_NoPartialState ==
    (Returned({"fit"}) /\ ret.err = "EstimatorFitError")
    => Committed = ret.pre

\* C5: in fold mode every row is held out by exactly one of the regenerated
\* folds, and its predictions are written by that fold's handles
C5_ExactlyOnce ==
    (Returned({"predict", "transform"}) /\ Assembled /\ ret.folded)
    => /\ DOMAIN ret.slices = 0..(cfg.folds - 1)
       /\ \A r \in 1..ret.X.n :
             LET holders == {i \in DOMAIN ret.slices : r \in ret.slices[i].test}
             IN  /\ Cardinality(holders) = 1
                 /\ ret.err = "none" =>
                       \A j \in DOMAIN ret.M.rows[r] :
                          /\ ret.M.rows[r][j].kind = "pred"
                          /\ ret.M.rows[r][j].fold \in holders

C5_Witness ==
    /\ Returned({"predict"})
    /\ ret.err = "none"
    /\ ret.folded
    /\ cfg.shuffle
    /\ ret.X.n > cfg.folds

\* C6: a predict call in which an expected estimator gave no predictions
\* raises EstimatorMismatchError and returns no matrix; a returned matrix has
\* one column of predictions per expected estimator, in their order
C6_Mismatch ==
    (Returned({"predict", "transform"}) /\ Assembled)
    => /\ (\E j \in DOMAIN fitted_ests.v : fitted_ests.v[j] \notin ret.produced)
            => /\ ret.err = "EstimatorMismatchError"
               /\ ret.M = NoMat
               /\ ret.out = NoMat
       /\ ret.err = "none" =>
             /\ Len(ret.M.rows) = ret.X.n
             /\ \A r \in DOMAIN ret.M.rows :
                   /\ Len(ret.M.rows[r]) = Len(fitted_ests.v)
                   /\ \A j \in DOMAIN ret.M.rows[r] :
                         /\ ret.M.rows[r][j].kind = "pred"
                         /\ ret.M.rows[r][j].est = fitted_ests.v[j]

C6_Witness ==
    /\ Returned({"predict"})
    /\ ret.err = "EstimatorMismatchError"
    /\ ret.folded
    /\ ret.produced # {}

\* C7: transform returns the prediction matrix when concat is false, and
\* otherwise X with the prediction columns appended on the right, row for
\* row, under X's row labels when X is a labelled table
C7_Transform ==
    (Returned({"transform"}) /\ ret.err = "none")
    => IF ~cfg.concat THEN ret.out = ret.M
       ELSE /\ Len(ret.out.rows) = ret.X.n
            /\ \A r \in DOMAIN ret.out.rows :
                  /\ ret.out.rows[r] = XMat(ret.X).rows[r] \o ret.M.rows[r]
                  /\ Len(ret.out.rows[r]) = 1 + Len(Estimators)
            /\ ret.out.df = ret.X.df
            /\ ret.out.index = Labels(ret.X)

C7_Witness ==
    /\ Returned({"transform"})
    /\ ret.err = "none"
    /\ cfg.concat
    /\ ret.X.df

\* the handles a strictly sequential run over the slices gives
SequentialHandles(slices) ==
    [i \in DOMAIN slices |->
        [j \in DOMAIN Estimators |->
            [est |-> Estimators[j], fold |-> i, fitted |-> TRUE,
             seen |-> slices[i].train, by |-> {i}]]]

\* C8: whatever n_jobs is and however the jobs interleave, a clone is fitted
\* by the job of its own slice only, and the handle sets fit stores are those
\* of a sequential run, stored once every job of the pass is done
C8_ScheduleIndependent ==
    /\ \A c \in DOMAIN clones : clones[c].by \subseteq {c[1]}
    /\ pc = "full" => train_ests_ = Attr(SequentialHandles(Min))
    /\ (Returned({"fit"}) /\ ret.err = "none")
          => test_ests_ = Attr(SequentialHandles(FullSlices(trainX.n)))

C8_Witness ==
    /\ pc = "full"
    /\ cfg.n_jobs > 1
    /\ cfg.shuffle
    /\ jobs[FullId] = "done"

\* C9: get_params(deep=True) has an entry for every constructor option,
\* holding the attribute's value, and one for every hyperparameter of every
\* named estimator
C9_GetParams ==
    (Returned({"get_params"}) /\ ret.deep)
    => /\ \A o \in InitOptions :
             /\ <<o>> \in DOMAIN ret.params
             /\ ret.params[<<o>>] = Attribute(o)
       /\ \A e \in EstNames : \A k \in DOMAIN EstimatorParams[e] :
             /\ <<e, k>> \in DOMAIN ret.params
             /\ ret.params[<<e, k>>] = EstimatorParams[e][k]

====
